---- MODULE Spec2Model ----
\* A model of the whoopy client library (official WHOOP API, version 1):
\*   whoopy/client_v1.py          WhoopClient  (OAuth2 token lifecycle, auth url)
\*   whoopy/handlers/handler_v1.py WhoopDataHandler (paged collections)
\* Three specifications share the variables below:
\*   Spec      the token lifecycle of one client (construct, authorize, refresh,
\*             store_token, from_token)
\*   SpecPages one resource handler walking the pages the API serves
\*   SpecUrl   the pure function WhoopClient.auth_url applied to bounded inputs
EXTENDS Integers, Sequences, FiniteSets, TLC

VARIABLES
    client,     \* the WhoopClient the caller holds, or NoClient
    files,      \* the file system: path -> JSON text of a token file, or NoFile
    stored,     \* history: the token fields of the client at its last store_token
    last,       \* history: the last client operation and how it ended
    pc,         \* position of the handler call: "idle", "loop" or "done"
    args,       \* arguments of the handler call in progress
    items,      \* local `items` of WhoopDataHandler.collection
    token,      \* local `token` of WhoopDataHandler.collection
    reqs,       \* history: the GET requests the call has issued, in order
    served,     \* history: the pages the API has answered with, in order
    result,     \* what the handler call returned or raised
    urlIn,      \* the arguments auth_url is applied to
    urlOut,     \* what auth_url returned or raised
    cls,        \* the record type a raw dict is parsed as, None without one
    rawDict,    \* history: the raw dict as it came from the API
    dataDict,   \* the raw dict object, which from_dict writes to
    parsed      \* history: what the from_dict calls on the dict gave, in order

clientVars == <<client, files, stored, last>>
handlerVars == <<pc, args, items, token, reqs, served, result>>
urlVars == <<urlIn, urlOut>>
modelVars == <<cls, rawDict, dataDict, parsed>>
vars == <<client, files, stored, last, pc, args, items, token, reqs, served,
          result, urlIn, urlOut, cls, rawDict, dataDict, parsed>>

\* ---------------------------------------------------------------- values

\* Python's None, wherever a string or an object may be missing.
None == "None"

\* No WhoopClient object.
NoClient == [exists |-> FALSE]

API_BASE == "https://api.prod.whoop.com/"
API_AUTH == API_BASE \o "oauth/oauth2"
SCOPES == <<"offline", "read:recovery", "read:cycles", "read:sleep",
            "read:workout", "read:profile", "read:body_measurement">>

\* x in a Python list.
InList(x, list) == \E i \in DOMAIN list : list[i] = x

\* An optional list argument (scopes: List[str] = None).
NoList == [isNone |-> TRUE, list |-> <<>>]

SomeList(l) == [isNone |-> FALSE, list |-> l]

\* Python truthiness of an optional string: None and "" are falsy.
TruthyStr(v) == v # None /\ v # ""

\* Python truthiness of an optional list: None and [] are falsy.
TruthyList(o) == ~o.isNone /\ o.list # <<>>

\* ------------------------------------------------------ WhoopClient object

\* _update_session that builds the session of a new client only.
UpdateSessionOnce(c) ==
    IF c.session.Authorization # None THEN c
    ELSE [c EXCEPT !.base_path = API_BASE \o "developer/v1",
                   !.session = [Authorization |-> "Bearer " \o c.token,
                                UserAgent |-> c.user_agent]]

\* WhoopClient._update_session: a new session whose headers carry the
\* current access token.
UpdateSession(c) ==
    [c EXCEPT !.base_path = API_BASE \o "developer/v1",
              !.session = [Authorization |-> "Bearer " \o c.token,
                           UserAgent |-> c.user_agent]]

\* WhoopClient.__init__
NewClient(access_token, expires_in, scopes, refresh_token, client_id, client_secret) ==
    UpdateSession(
        [exists |-> TRUE,
         token |-> access_token,
         expires_in |-> expires_in,
         scopes |-> scopes,
         refresh_token |-> refresh_token,
         client_id |-> client_id,
         client_secret |-> client_secret,
         user_agent |-> "Python/3.X (X11; Linux x86_64)",
         base_path |-> None,
         session |-> [Authorization |-> None, UserAgent |-> None],
         handlers |-> {"user", "cycle", "sleep", "workout", "recovery"}])

\* _token with the refresh_token entry filled from the access token.
TokenDictWrongRefresh(c) ==
    [access_token |-> c.token,
     expires_in |-> c.expires_in,
     refresh_token |-> c.token,
     scopes |-> c.scopes]

\* WhoopClient._token
TokenDict(c) ==
    [access_token |-> c.token,
     expires_in |-> c.expires_in,
     refresh_token |-> c.refresh_token,
     scopes |-> c.scopes]

\* ------------------------------------------------------------ json text

\* json.dump of an optional string, an int and a list of strings. A JSON value
\* is a pair <<kind, content>>; None is written as null.
DumpOptStrNoneAsText(v) == <<"string", v>>

DumpOptStr(v) == IF v = None THEN <<"null", "">> ELSE <<"string", v>>

DumpInt(n) == <<"number", n>>

DumpStrList(l) == <<"array", [i \in DOMAIN l |-> <<"string", l[i]>>]>>

\* json.dump(self._token, f): the object written to the token file.
JsonDumpToken(d) ==
    [access_token |-> DumpOptStr(d.access_token),
     expires_in |-> DumpInt(d.expires_in),
     refresh_token |-> DumpOptStr(d.refresh_token),
     scopes |-> DumpStrList(d.scopes)]

\* json.load of one value: null is read as None, an array as a list.
LoadValue(j) ==
    CASE j[1] = "null" -> None
      [] j[1] = "array" -> [i \in DOMAIN j[2] |-> j[2][i][2]]
      [] OTHER -> j[2]

\* json.load(f) of a token file.
JsonLoadToken(text) ==
    [access_token |-> LoadValue(text.access_token),
     expires_in |-> LoadValue(text.expires_in),
     refresh_token |-> LoadValue(text.refresh_token),
     scopes |-> LoadValue(text.scopes)]

\* ------------------------------------------------------------ file system

\* A path is the sequence of its components; os.path.dirname drops the last.
Paths == {<<".tokens", "token.json">>, <<"token.json">>}

Dirname(path) == SubSeq(path, 1, Len(path) - 1)

NoFile == [exists |-> FALSE]

FileOf(text) == [exists |-> TRUE, text |-> text]

\* WhoopClient.store_token: os.makedirs(dirname) raises FileNotFoundError for
\* the empty directory name of a bare file name, before anything is written.
StoreToken(c, path, fs) ==
    IF Dirname(path) = <<>>
    THEN [outcome |-> "FileNotFoundError", files |-> fs]
    ELSE [outcome |-> "ok",
          files |-> [fs EXCEPT ![path] = FileOf(JsonDumpToken(TokenDict(c)))]]

\* ----------------------------------------------------------- token endpoint

AccessTokens == {"at1", "at2"}
RefreshTokens == {"rt1", "rt2"}
\* expires_in of a client constructed by hand, and of a token response.
Expiries == {3600}
NewExpiries == {7200}
ScopeLists == {<<"offline">>, <<"offline", "read:sleep">>}
ClientIds == {"1234"}
ClientSecrets == {"5678"}

\* The scope field of a token response is one string, the granted scopes
\* separated by single spaces; it is modelled as the sequence of its words and
\* separators.
ScopeStrings == {<<"offline">>, <<"offline", " ", "read:sleep">>}

\* What the token endpoint may answer: 200 with a token body (refresh_token
\* None when the body carries none), or an error status.
OkResponses ==
    [status : {200}, access_token : AccessTokens, expires_in : NewExpiries,
     refresh_token : RefreshTokens \cup {None}, scope : ScopeStrings]

ErrResponse ==
    [status |-> 401, access_token |-> None, expires_in |-> 0,
     refresh_token |-> None, scope |-> <<>>]

Responses == OkResponses \cup {ErrResponse}

\* str.split(" "): the words between the separators ("" between two adjacent
\* separators and for the empty string).
RECURSIVE SplitFrom(_, _, _)
SplitFrom(s, i, word) ==
    IF i > Len(s) THEN <<word>>
    ELSE IF s[i] = " " THEN <<word>> \o SplitFrom(s, i + 1, "")
    ELSE SplitFrom(s, i + 1, word \o s[i])

Split(s) == SplitFrom(s, 1, "")

\* _parse_token that reads the body whatever the status.
ParseTokenIgnoresStatus(resp, scopes) ==
    LET token_scopes == Split(resp.scope) IN
    IF TruthyList(scopes)
       /\ \E i \in DOMAIN scopes.list : ~InList(scopes.list[i], token_scopes)
    THEN [outcome |-> "ValueError", codes |-> resp, token_scopes |-> token_scopes]
    ELSE [outcome |-> "ok", codes |-> resp, token_scopes |-> token_scopes]

\* _parse_token without the scope validation.
ParseTokenSkipsScopes(resp, scopes) ==
    IF resp.status # 200
    THEN [outcome |-> "RuntimeError", codes |-> resp, token_scopes |-> <<>>]
    ELSE [outcome |-> "ok", codes |-> resp, token_scopes |-> Split(resp.scope)]

\* WhoopClient._parse_token: one POST to the token endpoint; RuntimeError on a
\* status other than 200, ValueError on a requested scope that was not granted.
ParseToken(resp, scopes) ==
    IF resp.status # 200
    THEN [outcome |-> "RuntimeError", codes |-> resp, token_scopes |-> <<>>]
    ELSE LET token_scopes == Split(resp.scope) IN
         IF TruthyList(scopes)
            /\ \E i \in DOMAIN scopes.list : ~InList(scopes.list[i], token_scopes)
         THEN [outcome |-> "ValueError", codes |-> resp, token_scopes |-> token_scopes]
         ELSE [outcome |-> "ok", codes |-> resp, token_scopes |-> token_scopes]

\* authorize that gives the client the scopes asked for, not those granted.
AuthorizeResultRequestedScopes(client_id, client_secret, scopes, resp) ==
    LET p == ParseToken(resp, scopes) IN
    IF p.outcome # "ok"
    THEN [outcome |-> p.outcome, returned |-> FALSE, client |-> NoClient, posts |-> 1]
    ELSE [outcome |-> "ok", returned |-> TRUE, posts |-> 1,
          client |-> NewClient(p.codes.access_token, p.codes.expires_in,
                               scopes.list, p.codes.refresh_token,
                               client_id, client_secret)]

\* WhoopClient.authorize: the code exchange; a client only when _parse_token
\* returned.
AuthorizeResult(client_id, client_secret, scopes, resp) ==
    LET p == ParseToken(resp, scopes) IN
    IF p.outcome # "ok"
    THEN [outcome |-> p.outcome, returned |-> FALSE, client |-> NoClient, posts |-> 1]
    ELSE [outcome |-> "ok", returned |-> TRUE, posts |-> 1,
          client |-> NewClient(p.codes.access_token, p.codes.expires_in,
                               p.token_scopes, p.codes.refresh_token,
                               client_id, client_secret)]

\* refresh without the final _update_session().
RefreshResultStaleSession(c, resp) ==
    IF c.refresh_token = None
    THEN [outcome |-> "ValueError", client |-> c, posts |-> 0]
    ELSE IF c.client_id = None \/ c.client_secret = None
    THEN [outcome |-> "ValueError", client |-> c, posts |-> 0]
    ELSE LET p == ParseToken(resp, SomeList(c.scopes)) IN
         IF p.outcome # "ok"
         THEN [outcome |-> p.outcome, client |-> c, posts |-> 1]
         ELSE [outcome |-> "ok", posts |-> 1,
               client |-> [c EXCEPT !.token = p.codes.access_token,
                                    !.expires_in = p.codes.expires_in,
                                    !.refresh_token = p.codes.refresh_token]]

\* refresh that keeps the old refresh token when the response carries none.
RefreshResultKeepsRefreshToken(c, resp) ==
    IF c.refresh_token = None
    THEN [outcome |-> "ValueError", client |-> c, posts |-> 0]
    ELSE IF c.client_id = None \/ c.client_secret = None
    THEN [outcome |-> "ValueError", client |-> c, posts |-> 0]
    ELSE LET p == ParseToken(resp, SomeList(c.scopes)) IN
         IF p.outcome # "ok"
         THEN [outcome |-> p.outcome, client |-> c, posts |-> 1]
         ELSE [outcome |-> "ok", posts |-> 1,
               client |-> UpdateSession(
                   [c EXCEPT !.token = p.codes.access_token,
                             !.expires_in = p.codes.expires_in,
                             !.refresh_token =
                                 IF p.codes.refresh_token = None
                                 THEN c.refresh_token
                                 ELSE p.codes.refresh_token])]

\* refresh that posts to the token endpoint before it looks at its own
\* credentials.
RefreshResultPostsFirst(c, resp) ==
    LET p == ParseToken(resp, SomeList(c.scopes)) IN
    IF c.refresh_token = None \/ c.client_id = None \/ c.client_secret = None
    THEN [outcome |-> "ValueError", client |-> c, posts |-> 1]
    ELSE IF p.outcome # "ok"
    THEN [outcome |-> p.outcome, client |-> c, posts |-> 1]
    ELSE [outcome |-> "ok", posts |-> 1,
          client |-> UpdateSession(
              [c EXCEPT !.token = p.codes.access_token,
                        !.expires_in = p.codes.expires_in,
                        !.refresh_token = p.codes.refresh_token])]

\* refresh that stores the new access token before the answer is checked.
RefreshResultStoresUnchecked(c, resp) ==
    IF c.refresh_token = None
    THEN [outcome |-> "ValueError", client |-> c, posts |-> 0]
    ELSE IF c.client_id = None \/ c.client_secret = None
    THEN [outcome |-> "ValueError", client |-> c, posts |-> 0]
    ELSE LET p == ParseToken(resp, SomeList(c.scopes))
             new == [c EXCEPT !.token = p.codes.access_token,
                              !.expires_in = p.codes.expires_in,
                              !.refresh_token = p.codes.refresh_token]
         IN  IF p.outcome # "ok"
             THEN [outcome |-> p.outcome, client |-> new, posts |-> 1]
             ELSE [outcome |-> "ok", posts |-> 1, client |-> UpdateSession(new)]

\* WhoopClient.refresh: the client after the call, how the call ended and
\* how many requests it sent to the token endpoint.
RefreshResult(c, resp) ==
    IF c.refresh_token = None
    THEN [outcome |-> "ValueError", client |-> c, posts |-> 0]
    ELSE IF c.client_id = None \/ c.client_secret = None
    THEN [outcome |-> "ValueError", client |-> c, posts |-> 0]
    ELSE LET p == ParseToken(resp, SomeList(c.scopes)) IN
         IF p.outcome # "ok"
         THEN [outcome |-> p.outcome, client |-> c, posts |-> 1]
         ELSE [outcome |-> "ok", posts |-> 1,
               client |-> UpdateSession(
                   [c EXCEPT !.token = p.codes.access_token,
                             !.expires_in = p.codes.expires_in,
                             !.refresh_token = p.codes.refresh_token])]

\* client.refresh() as from_token calls it: the method itself, or a test stub
\* that only records the call.
CallRefresh(c, stubbed, resp) ==
    IF stubbed THEN [outcome |-> "ok", client |-> c, posts |-> 0]
    ELSE RefreshResult(c, resp)

\* from_token that returns the client whatever refresh did.
FromTokenResultIgnoresRefresh(fs, path, client_id, client_secret, stubbed, resp) ==
    IF ~fs[path].exists
    THEN [outcome |-> "FileNotFoundError", returned |-> FALSE, client |-> NoClient,
          posts |-> 0, refreshCalls |-> 0, refreshOutcome |-> "none"]
    ELSE LET tok == JsonLoadToken(fs[path].text)
             c == NewClient(tok.access_token, tok.expires_in, tok.scopes,
                            tok.refresh_token, client_id, client_secret)
             r == CallRefresh(c, stubbed, resp) IN
         [outcome |-> "ok", returned |-> TRUE, client |-> r.client,
          posts |-> r.posts, refreshCalls |-> 1, refreshOutcome |-> r.outcome]

\* WhoopClient.from_token: open and json.load the file, construct the client,
\* refresh it, return it.
FromTokenResult(fs, path, client_id, client_secret, stubbed, resp) ==
    IF ~fs[path].exists
    THEN [outcome |-> "FileNotFoundError", returned |-> FALSE, client |-> NoClient,
          posts |-> 0, refreshCalls |-> 0, refreshOutcome |-> "none"]
    ELSE LET tok == JsonLoadToken(fs[path].text)
             c == NewClient(tok.access_token, tok.expires_in, tok.scopes,
                            tok.refresh_token, client_id, client_secret)
             r == CallRefresh(c, stubbed, resp) IN
         IF r.outcome # "ok"
         THEN [outcome |-> r.outcome, returned |-> FALSE, client |-> NoClient,
               posts |-> r.posts, refreshCalls |-> 1, refreshOutcome |-> r.outcome]
         ELSE [outcome |-> "ok", returned |-> TRUE, client |-> r.client,
               posts |-> r.posts, refreshCalls |-> 1, refreshOutcome |-> "ok"]

\* ------------------------------------------------------ resource handler

\* The page limit the API accepts.
MinLimit == 1
MaxLimit == 25

\* How far beyond the accepted range the limits passed by callers go.
LimitMargin == 2

\* The longest chain of pages the API serves to one call, and the most
\* records it puts on one page.
MaxPages == 3
MaxPageSize == 2

Limits == (MinLimit - LimitMargin)..(MaxLimit + LimitMargin)

\* Dates a caller passes as start or end; the second stands for no date.
DateStrings == {"2022-04-24", "not a date"}

NoDatetime == [exists |-> FALSE]

\* time_helper.any_to_datetime on a string: the datetime it stands for, None
\* when it stands for none.
AnyToDatetime(date) ==
    IF date = "2022-04-24"
    THEN [exists |-> TRUE, year |-> 2022, month |-> 4, day |-> 24,
          hour |-> 0, minute |-> 0, second |-> 0]
    ELSE NoDatetime

Pad2(n) == IF n < 10 THEN "0" \o ToString(n) ELSE ToString(n)

\* datetime.isoformat of a datetime without microseconds and time zone.
Isoformat(dt) ==
    ToString(dt.year) \o "-" \o Pad2(dt.month) \o "-" \o Pad2(dt.day) \o "T"
        \o Pad2(dt.hour) \o ":" \o Pad2(dt.minute) \o ":" \o Pad2(dt.second)

\* The continuation token the API puts on the k-th page it serves to a call;
\* cursor0 is a token the caller kept from an earlier call.
Cursor(k) == "cursor" \o ToString(k)

\* WhoopHandler._check_datetime: the parsed date in ISO format, "Z" appended.
\* The test for None looks at the argument, not at the parsed date, so a
\* string that stands for no date gets as far as None.isoformat().
CheckDatetime(date) ==
    LET new_date == AnyToDatetime(date) IN
    IF date = None
    THEN [outcome |-> "ValueError", value |-> None]
    ELSE IF ~new_date.exists
    THEN [outcome |-> "AttributeError", value |-> None]
    ELSE [outcome |-> "ok", value |-> Isoformat(new_date) \o "Z"]

\* `if start: params["start"] = self._check_datetime(start)`
DateParam(date) ==
    IF TruthyStr(date) THEN CheckDatetime(date) ELSE [outcome |-> "ok", value |-> None]

\* No query parameters: _get(path) with params=None; limit 0 is no limit key.
NoParams == [limit |-> 0, start |-> None, end |-> None, nextToken |-> None]

\* _params with the upper bound of the limit test off by one.
ParamsOffByOne(start, end, next, limit) ==
    LET s == DateParam(start)
        e == DateParam(end)
        raised(exception) == [outcome |-> exception, params |-> NoParams]
    IN  IF limit >= MaxLimit \/ limit < MinLimit THEN raised("ValueError")
        ELSE IF s.outcome # "ok" THEN raised(s.outcome)
        ELSE IF e.outcome # "ok" THEN raised(e.outcome)
        ELSE [outcome |-> "ok",
              params |-> [limit |-> limit, start |-> s.value, end |-> e.value,
                          nextToken |-> IF TruthyStr(next) THEN next ELSE None]]

\* _params that never sets nextToken.
ParamsWithoutNextToken(start, end, next, limit) ==
    LET s == DateParam(start)
        e == DateParam(end)
        raised(exception) == [outcome |-> exception, params |-> NoParams]
    IN  IF limit > MaxLimit \/ limit < MinLimit THEN raised("ValueError")
        ELSE IF s.outcome # "ok" THEN raised(s.outcome)
        ELSE IF e.outcome # "ok" THEN raised(e.outcome)
        ELSE [outcome |-> "ok",
              params |-> [limit |-> limit, start |-> s.value, end |-> e.value,
                          nextToken |-> None]]

\* WhoopDataHandler._params: the query parameters of a page request; a key
\* that is not set is None.
Params(start, end, next, limit) ==
    LET s == DateParam(start)
        e == DateParam(end)
        raised(exception) == [outcome |-> exception, params |-> NoParams]
    IN  IF limit > MaxLimit \/ limit < MinLimit THEN raised("ValueError")
        ELSE IF s.outcome # "ok" THEN raised(s.outcome)
        ELSE IF e.outcome # "ok" THEN raised(e.outcome)
        ELSE [outcome |-> "ok",
              params |-> [limit |-> limit, start |-> s.value, end |-> e.value,
                          nextToken |-> IF TruthyStr(next) THEN next ELSE None]]

\* WhoopHandler._get: the GET request sent through the client's session.
Request(c, path, params) ==
    [url |-> c.base_path \o "/" \o path, params |-> params,
     auth |-> c.session.Authorization]

\* The raw records of a page of n records, as the API sends them.
RawRecords(n) == [i \in 1..n |-> [id |-> i, score |-> None]]

\* What the API may answer to the k-th page request of a call that asked for
\* `limit` records: an error status, or a page of at most `limit` records
\* with or without a continuation token (without, on the last page of the
\* longest chain).
PageResponses(k, limit) ==
    {[status |-> 500, records |-> <<>>, next_token |-> None]}
    \cup {[status |-> 200, records |-> RawRecords(n), next_token |-> t] :
             n \in 0..(IF limit < MaxPageSize THEN limit ELSE MaxPageSize),
             t \in IF k < MaxPages THEN {None, Cursor(k)} ELSE {None}}

\* UserData.from_dict as collection uses it: the typed record of a raw one.
FromDict(model, raw) == [model |-> model, id |-> raw.id, score |-> raw.score]

\* Whether the model's constructor refuses the raw record: UserRecovery
\* declares score without Optional and without a default.
FromDictRaises(model, raw) == model = "UserRecovery" /\ raw.score = None

\* _verify that takes an answer with an error status for an empty last page.
GetDataEmptyOnError(resp) ==
    IF resp.status # 200
    THEN [outcome |-> "ok", records |-> <<>>, next_token |-> None]
    ELSE [outcome |-> "ok", records |-> resp.records, next_token |-> resp.next_token]

\* WhoopHandler._verify and the unpacking in _get_data: the records and the
\* continuation token of a 200 answer, an Exception otherwise.
GetData(resp) ==
    IF resp.status # 200
    THEN [outcome |-> "Exception", records |-> <<>>, next_token |-> None]
    ELSE [outcome |-> "ok", records |-> resp.records, next_token |-> resp.next_token]

\* [self._model.from_dict(c) for c in recs]
ParseRecords(model, recs) == [i \in DOMAIN recs |-> FromDict(model, recs[i])]

\* d.dict() of a record: its fields by name.
ModelDict(r) == [id |-> r.id, score |-> r.score]

\* The row json_normalize makes of a dict: the fields of a nested score are
\* spread over columns with dotted names, a score of None stays one column.
Flatten(d) ==
    [id |-> d.id,
     score |-> d.score,
     columns |-> IF d.score = None THEN {"id", "score"}
                 ELSE {"id", "score.strain", "score.kilojoule",
                       "score.average_heart_rate", "score.max_heart_rate"}]

\* A table without the rows of the records that have no score.
ToDfWithoutUnscored(data) ==
    LET scored(r) == r.score # None IN
    [i \in DOMAIN SelectSeq(data, scored) |-> Flatten(ModelDict(SelectSeq(data, scored)[i]))]

\* WhoopDataHandler._to_df: pd.json_normalize([d.dict() for d in data]), one
\* row per record.
ToDf(data) == [i \in DOMAIN data |-> Flatten(ModelDict(data[i]))]

\* `while token:` that is never entered.
MorePagesNever(get_all_pages, tok) == FALSE

\* items.extend(data) that starts over with every page.
ExtendReplaces(list, data) == data

\* items.extend(data)
Extend(list, data) == list \o data

\* The page walk entered whatever get_all_pages says.
MorePagesAlways(get_all_pages, tok) == TruthyStr(tok)

\* `if get_all_pages: while token:` - whether collection asks for one more
\* page.
MorePages(get_all_pages, tok) == get_all_pages /\ TruthyStr(tok)

\* The split marker of the single-record templates.
Marker == "@"

\* WhoopDataHandler.__init__: a template is the sequence of its pieces, the
\* marker a piece of its own; <<>> is path_single=None.
DataHandler(path, model, path_single) ==
    [path |-> path,
     path_single |-> IF path_single # <<>> THEN path_single
                     ELSE <<path \o "/", Marker>>,
     model |-> model]

\* The four resource handlers of a client.
Handlers ==
    [cycle |-> DataHandler("cycle", "UserCycle", <<>>),
     sleep |-> DataHandler("activity/sleep", "UserSleep", <<>>),
     recovery |-> DataHandler("recovery", "UserRecovery",
                              <<"cycle/", Marker, "/recovery">>),
     workout |-> DataHandler("activity/workout", "UserWorkout", <<>>)]

RECURSIVE Concat(_)
Concat(pieces) ==
    IF pieces = <<>> THEN "" ELSE Head(pieces) \o Concat(Tail(pieces))

\* The place of the first marker of a template from piece i on, 0 for none.
RECURSIVE MarkerFrom(_, _)
MarkerFrom(template, i) ==
    IF i > Len(template) THEN 0
    ELSE IF template[i] = Marker THEN i
    ELSE MarkerFrom(template, i + 1)

\* self._path_single.split("@", 1)
SplitMarker(template) ==
    LET m == MarkerFrom(template, 1) IN
    IF m = 0 THEN <<Concat(template)>>
    ELSE <<Concat(SubSeq(template, 1, m - 1)),
           Concat(SubSeq(template, m + 1, Len(template)))>>

\* The path of single with everything after the marker left out.
SinglePathWithoutRest(template, id) ==
    SplitMarker(template)[1] \o ToString(id)

\* f"{path[0]}{id}{path[1] if len(path) > 1 else ''}"
SinglePath(template, id) ==
    LET path == SplitMarker(template) IN
    path[1] \o ToString(id) \o (IF Len(path) > 1 THEN path[2] ELSE "")

\* The ids callers ask single for.
RecordIds == {7, 4096}

\* What the API may answer to single(id): an error status or the record,
\* scored or not; the body of a 200 answer is the one record.
SingleResponses(id) ==
    {[status |-> 500, records |-> <<>>, next_token |-> None]}
    \cup {[status |-> 200, records |-> <<[id |-> id, score |-> sc]>>,
            next_token |-> None] : sc \in {None, "score"}}

\* recs[0] that answers an empty list with None.
LatestResultNoneOnEmpty(recs) ==
    [outcome |-> "ok", items |-> recs, token |-> None, table |-> <<>>]

\* `return recs[0]` of latest.
LatestResult(recs) ==
    IF recs = <<>>
    THEN [outcome |-> "IndexError", items |-> <<>>, token |-> None, table |-> <<>>]
    ELSE [outcome |-> "ok", items |-> <<recs[1]>>, token |-> None, table |-> <<>>]

\* ---------------------------------------------------------- record models

\* The record types of the four resources.
Models == {"UserCycle", "UserSleep", "UserRecovery", "UserWorkout"}

\* A value under a timestamp key of a dict: the key is absent, or it holds
\* null, a string in the wire format or a datetime; t is the instant, in
\* minutes.
Absent == [kind |-> "absent", t |-> 0]
Null == [kind |-> "null", t |-> 0]
Str(t) == [kind |-> "str", t |-> t]
Datetime(t) == [kind |-> "datetime", t |-> t]

\* A value under the timezone_offset key: absent, or a string sign HH:MM.
NoOffset == [kind |-> "absent", sign |-> "", hours |-> 0, minutes |-> 0]
Offset(sign, hours, minutes) ==
    [kind |-> "str", sign |-> sign, hours |-> hours, minutes |-> minutes]

\* A value under the score key: absent, null, a dict or a score object; the
\* nested values say the same of the sub-objects of a score.
NoNested == [stage_summary |-> "absent", sleep_needed |-> "absent",
             zone_duration |-> "absent"]
NoScore == [kind |-> "absent", nested |-> NoNested]
NullScore == [kind |-> "null", nested |-> NoNested]
ScoreDict(nested) == [kind |-> "dict", nested |-> nested]

\* The empty dict.
NoDict == [created_at |-> Absent, updated_at |-> Absent, start |-> Absent,
           end |-> Absent, timezone_offset |-> NoOffset, score |-> NoScore]

\* What the API sends under a nested key of a score.
NestedKinds == {"absent", "null", "dict"}

\* The score values of the raw records of a model.
RawScores(m) ==
    {NullScore}
    \cup CASE m = "UserSleep" ->
               {ScoreDict([NoNested EXCEPT !.stage_summary = a, !.sleep_needed = b]) :
                   a \in NestedKinds, b \in NestedKinds}
           [] m = "UserWorkout" ->
               {ScoreDict([NoNested EXCEPT !.zone_duration = a]) : a \in NestedKinds}
           [] OTHER -> {ScoreDict(NoNested)}

\* The timezone offsets of the raw records.
RawOffsets == {NoOffset, Offset("+", 2, 0), Offset("-", 5, 30), Offset("", 1, 0)}

\* The raw records of a model as the API sends them: timestamps as strings,
\* a recovery without start and end, an end that may be null, a score that
\* may be null.
RawDicts(m) ==
    {[created_at |-> Str(6000), updated_at |-> Str(6010),
      start |-> IF m = "UserRecovery" THEN Absent ELSE Str(5000),
      end |-> e, timezone_offset |-> tz, score |-> sc] :
        e \in IF m = "UserRecovery" THEN {Absent} ELSE {Str(5480), Null},
        tz \in RawOffsets, sc \in RawScores(m)}

\* The timedelta of a correction that adds whatever the sign.
TimeDeltaIgnoresSign(d, correct_offset) ==
    IF correct_offset /\ d.timezone_offset.kind # "absent"
    THEN d.timezone_offset.hours * 60 + d.timezone_offset.minutes
    ELSE 0

\* from_dict, lines 47-64: the timedelta of the correction, in minutes.
TimeDelta(d, correct_offset) ==
    IF correct_offset /\ d.timezone_offset.kind # "absent"
    THEN LET to_str == d.timezone_offset
             td == to_str.hours * 60 + to_str.minutes
         IN  IF to_str.sign = "-" THEN 0 - td ELSE td
    ELSE 0

TimestampKeys == <<"created_at", "updated_at", "start", "end">>

\* from_dict, lines 67-70: the loop that puts datetimes in the place of the
\* timestamp strings of the dict, from key number i on; strptime raises
\* TypeError for a value that is no string.
RECURSIVE UpdateDatetimes(_, _, _)
UpdateDatetimes(d, td, i) ==
    IF i > Len(TimestampKeys) THEN [outcome |-> "ok", data |-> d]
    ELSE LET dt == TimestampKeys[i] IN
         IF d[dt].kind \in {"absent", "null"} THEN UpdateDatetimes(d, td, i + 1)
         ELSE IF d[dt].kind # "str" THEN [outcome |-> "TypeError", data |-> d]
         ELSE UpdateDatetimes([d EXCEPT ![dt] = Datetime(@.t + td)], td, i + 1)

\* _dict_parse that leaves the nested dicts of a score as they came.
NestedParseLeavesDicts(m, nested) == nested

\* The sub-objects _dict_parse builds inside a score dict.
NestedParse(m, nested) ==
    LET built(k) == IF k = "dict" THEN "object" ELSE "null"
        kept(k) == IF k = "dict" THEN "object" ELSE k
    IN  CASE m = "UserSleep" ->
               [nested EXCEPT !.stage_summary = built(@), !.sleep_needed = built(@)]
          [] m = "UserWorkout" -> [nested EXCEPT !.zone_duration = kept(@)]
          [] OTHER -> nested

\* The defaults the score model fills in for the optional sub-objects that
\* are not given.
NestedDefaults(m, nested) ==
    LET filled(k) == IF k = "absent" THEN "null" ELSE k IN
    CASE m = "UserSleep" ->
           [nested EXCEPT !.stage_summary = filled(@), !.sleep_needed = filled(@)]
      [] m = "UserWorkout" -> [nested EXCEPT !.zone_duration = filled(@)]
      [] OTHER -> nested

\* cls._dict_parse(data): a score dict is replaced by the score object built
\* from it; the dict is left alone when score is absent or null; a score
\* that is no mapping cannot be unpacked.
DictParse(m, d) ==
    IF d.score.kind \in {"absent", "null"} THEN [outcome |-> "ok", data |-> d]
    ELSE IF d.score.kind # "dict" THEN [outcome |-> "TypeError", data |-> d]
    ELSE [outcome |-> "ok",
          data |-> [d EXCEPT !.score =
                       [kind |-> "object",
                        nested |-> NestedDefaults(m, NestedParse(m, @.nested))]]]

\* Whether the model declares start and end.
HasStart(m) == m # "UserRecovery"

\* Whether the model declares score as Optional with default None.
ScoreOptional(m) == m # "UserRecovery"

\* A record that was not built.
NoRecord == [model |-> None, created_at |-> Absent, updated_at |-> Absent,
             start |-> Absent, end |-> Absent, score |-> NoScore]

\* cls(**data): the validation of the model's constructor and the record
\* it builds; optional fields that are not given are None, keys the model
\* does not declare are ignored.
NewRecord(m, d) ==
    LET optional(v) == IF v.kind = "absent" THEN Null ELSE v
        required == <<d.created_at, d.updated_at>>
                        \o (IF HasStart(m) THEN <<d.start>> ELSE <<>>)
    IN  IF \/ \E i \in DOMAIN required : required[i].kind \in {"absent", "null"}
           \/ ~ScoreOptional(m) /\ d.score.kind \in {"absent", "null"}
        THEN [outcome |-> "ValidationError", record |-> NoRecord]
        ELSE [outcome |-> "ok",
              record |-> [model |-> m,
                          created_at |-> d.created_at,
                          updated_at |-> d.updated_at,
                          start |-> IF HasStart(m) THEN d.start ELSE Absent,
                          end |-> IF HasStart(m) THEN optional(d.end) ELSE Absent,
                          score |-> IF d.score.kind = "absent" THEN NullScore
                                    ELSE d.score]]

\* UserData.from_dict(data, correct_offset): the outcome, the record and
\* what the call leaves in the dict it was given.
ModelFromDict(m, d, correct_offset) ==
    LET upd == UpdateDatetimes(d, TimeDelta(d, correct_offset), 1)
        prs == DictParse(m, upd.data)
        new == NewRecord(m, prs.data)
    IN  IF upd.outcome # "ok"
        THEN [outcome |-> upd.outcome, record |-> NoRecord, data |-> upd.data]
        ELSE IF prs.outcome # "ok"
        THEN [outcome |-> prs.outcome, record |-> NoRecord, data |-> prs.data]
        ELSE [outcome |-> new.outcome, record |-> new.record, data |-> prs.data]

\* ------------------------------------------------------------- auth_url

\* The shortest state auth_url accepts.
MinStateLen == 8

\* The longest state a caller supplies.
MaxStateLen == 9

\* A state string of n characters.
RECURSIVE StateOfLen(_)
StateOfLen(n) == IF n = 0 THEN "" ELSE StateOfLen(n - 1) \o "s"

\* What str(uuid.uuid4()) may give: 36 characters, different from call to call.
Uuids == {"0b0ae5e2-7c8e-4c56-9d0a-3f1f6f0c2a11",
          "c4a9d8f0-52b1-4e7a-8a3e-91d2b7e4f6c3"}

\* " ".join(scopes)
RECURSIVE Join(_)
Join(list) ==
    IF list = <<>> THEN ""
    ELSE IF Len(list) = 1 THEN list[1]
    ELSE list[1] \o " " \o Join(Tail(list))

\* auth_url that accepts a state one character short.
AuthUrlShortState(client_id, client_secret, redirect_uri, state, scopes, uuid) ==
    LET st == IF TruthyStr(state) THEN state ELSE uuid
        sc == IF TruthyList(scopes) THEN scopes.list ELSE SCOPES IN
    IF Len(st) < MinStateLen - 1
    THEN [outcome |-> "ValueError", url |-> None, state |-> None, posts |-> 0]
    ELSE [outcome |-> "ok", state |-> st, posts |-> 0,
          url |-> API_AUTH \o "/auth?"
                  \o "scope=" \o Join(sc) \o "&"
                  \o "client_id=" \o client_id \o "&"
                  \o "client_secret=" \o client_secret \o "&"
                  \o "state=" \o st \o "&"
                  \o "redirect_uri=" \o redirect_uri \o "&"
                  \o "response_type=code"]

\* auth_url that leaves the client secret out of the url.
AuthUrlWithoutSecret(client_id, client_secret, redirect_uri, state, scopes, uuid) ==
    LET st == IF TruthyStr(state) THEN state ELSE uuid
        sc == IF TruthyList(scopes) THEN scopes.list ELSE SCOPES IN
    IF Len(st) < MinStateLen
    THEN [outcome |-> "ValueError", url |-> None, state |-> None, posts |-> 0]
    ELSE [outcome |-> "ok", state |-> st, posts |-> 0,
          url |-> API_AUTH \o "/auth?"
                  \o "scope=" \o Join(sc) \o "&"
                  \o "client_id=" \o client_id \o "&"
                  \o "state=" \o st \o "&"
                  \o "redirect_uri=" \o redirect_uri \o "&"
                  \o "response_type=code"]

\* WhoopClient.auth_url: the url and the state, or ValueError; uuid is the
\* value uuid4 gives when the state is missing or empty. The function sends
\* no request (posts).
AuthUrl(client_id, client_secret, redirect_uri, state, scopes, uuid) ==
    LET st == IF TruthyStr(state) THEN state ELSE uuid
        sc == IF TruthyList(scopes) THEN scopes.list ELSE SCOPES IN
    IF Len(st) < MinStateLen
    THEN [outcome |-> "ValueError", url |-> None, state |-> None, posts |-> 0]
    ELSE [outcome |-> "ok", state |-> st, posts |-> 0,
          url |-> API_AUTH \o "/auth?"
                  \o "scope=" \o Join(sc) \o "&"
                  \o "client_id=" \o client_id \o "&"
                  \o "client_secret=" \o client_secret \o "&"
                  \o "state=" \o st \o "&"
                  \o "redirect_uri=" \o redirect_uri \o "&"
                  \o "response_type=code"]

\* ------------------------------------------------- token lifecycle actions

NoResponse ==
    [status |-> 0, access_token |-> None, expires_in |-> 0,
     refresh_token |-> None, scope |-> <<>>]

NothingStored == [exists |-> FALSE]

\* The record of the last operation: its name, the exception it raised or
\* "ok", the POSTs it sent to the token endpoint, the calls of refresh it made
\* and how the refresh ended, whether a classmethod returned a client, whether
\* refresh was stubbed, the token response a successful exchange consumed, the
\* status and the scope field of the answer to its POST, and the scopes
\* argument of authorize.
LastOp(op, outcome, posts, refreshCalls, refreshOutcome, returned, stubbed, resp) ==
    [op |-> op, outcome |-> outcome, posts |-> posts, refreshCalls |-> refreshCalls,
     refreshOutcome |-> refreshOutcome, returned |-> returned, stubbed |-> stubbed,
     resp |-> IF outcome = "ok" /\ posts > 0 THEN resp ELSE NoResponse,
     status |-> IF posts > 0 THEN resp.status ELSE 0,
     scope |-> IF posts > 0 THEN resp.scope ELSE <<>>,
     requested |-> NoList]

\* WhoopClient(access_token, expires_in, scopes, refresh_token, client_id,
\* client_secret): direct construction.
Construct ==
    \E at \in {"at1"}, ex \in Expiries, sc \in ScopeLists,
       rt \in {"rt1", None},
       id \in ClientIds \cup {None}, sec \in ClientSecrets \cup {None} :
        /\ client' = NewClient(at, ex, sc, rt, id, sec)
        /\ last' = LastOp("init", "ok", 0, 0, "none", TRUE, FALSE, NoResponse)
        /\ UNCHANGED <<files, stored>>
        /\ UNCHANGED <<handlerVars, urlVars, modelVars>>

\* WhoopClient.authorize(code, client_id, client_secret, redirect_url, scopes)
Authorize ==
    \E id \in ClientIds, sec \in ClientSecrets,
       sc \in {NoList, SomeList(<<>>), SomeList(<<"offline", "read:sleep">>)},
       resp \in Responses :
        LET r == AuthorizeResult(id, sec, sc, resp) IN
        /\ client' = IF r.returned THEN r.client ELSE client
        /\ last' = [LastOp("authorize", r.outcome, r.posts, 0, "none",
                           r.returned, FALSE, resp) EXCEPT !.requested = sc]
        /\ UNCHANGED <<files, stored>>
        /\ UNCHANGED <<handlerVars, urlVars, modelVars>>

\* client.refresh()
Refresh ==
    /\ client.exists
    /\ \E resp \in Responses :
        LET r == RefreshResult(client, resp) IN
        /\ client' = r.client
        /\ last' = LastOp("refresh", r.outcome, r.posts, 1, r.outcome,
                          FALSE, FALSE, resp)
    /\ UNCHANGED <<files, stored>>
    /\ UNCHANGED <<handlerVars, urlVars, modelVars>>

\* client.store_token(path)
DoStoreToken ==
    /\ client.exists
    /\ \E path \in Paths :
        LET r == StoreToken(client, path, files) IN
        /\ files' = r.files
        /\ stored' = IF r.outcome = "ok"
                      THEN [exists |-> TRUE, access_token |-> client.token,
                            refresh_token |-> client.refresh_token,
                            scopes |-> client.scopes]
                      ELSE stored
        /\ last' = LastOp("store_token", r.outcome, 0, 0, "none",
                          FALSE, FALSE, NoResponse)
    /\ UNCHANGED client
    /\ UNCHANGED <<handlerVars, urlVars, modelVars>>

\* WhoopClient.from_token(path, client_id, client_secret)
FromToken ==
    \E path \in Paths, id \in ClientIds, sec \in ClientSecrets,
       call \in {[stubbed |-> TRUE, resp |-> NoResponse]}
                \cup [stubbed : {FALSE}, resp : Responses] :
        LET stubbed == call.stubbed
            resp == call.resp
            r == FromTokenResult(files, path, id, sec, stubbed, resp) IN
        /\ client' = IF r.returned THEN r.client ELSE client
        /\ last' = LastOp("from_token", r.outcome, r.posts, r.refreshCalls,
                          r.refreshOutcome, r.returned, stubbed, resp)
        /\ UNCHANGED <<files, stored>>
        /\ UNCHANGED <<handlerVars, urlVars, modelVars>>

\* ------------------------------------------------------- handler actions

\* The defaults of collection's parameters.
NoArgs == [start |-> None, end |-> None, next |-> None, limit |-> 10,
           get_all_pages |-> TRUE, op |-> "none", handler |-> "cycle", id |-> 0]

NoResult == [outcome |-> "none", items |-> <<>>, token |-> None, table |-> <<>>]

\* The handler modelled: client.cycle, WhoopCycleHandler.
HandlerPath == Handlers.cycle.path
HandlerModel == Handlers.cycle.model

Raised(exception) ==
    [outcome |-> exception, items |-> <<>>, token |-> None, table |-> <<>>]

Returned(list, tok) ==
    [outcome |-> "ok", items |-> list, token |-> tok, table |-> <<>>]

\* What collection_df returns: the table and the token.
ReturnedDf(df, tok) ==
    [outcome |-> "ok", items |-> <<>>, token |-> tok, table |-> df]

\* The return of collection, and of collection_df around it.
CollectionResult(op, list, tok) ==
    IF op = "collection_df" THEN ReturnedDf(ToDf(list), tok) ELSE Returned(list, tok)

\* handler.collection(start, end, next, limit, get_all_pages), called by
\* itself or by collection_df with the same arguments: the call up to and
\* including its first page request.
Collection ==
    /\ pc = "idle"
    /\ client.exists
    /\ \E start \in DateStrings \cup {None}, end \in DateStrings \cup {None},
          next \in {None, Cursor(0)}, limit \in Limits, get_all_pages \in BOOLEAN,
          op \in {"collection", "collection_df"} :
        LET p == Params(start, end, next, limit) IN
        /\ args' = [NoArgs EXCEPT !.op = op, !.start = start,
                                   !.end = end, !.next = next, !.limit = limit,
                                   !.get_all_pages = get_all_pages]
        /\ IF p.outcome # "ok"
           THEN /\ pc' = "done"
                /\ result' = Raised(p.outcome)
                /\ UNCHANGED <<items, token, reqs, served>>
           ELSE \E resp \in PageResponses(1, limit) :
                LET d == GetData(resp) IN
                /\ reqs' = <<Request(client, HandlerPath, p.params)>>
                /\ served' = <<resp>>
                /\ IF d.outcome # "ok"
                   THEN /\ pc' = "done"
                        /\ result' = Raised(d.outcome)
                        /\ UNCHANGED <<items, token>>
                   ELSE /\ items' = ParseRecords(HandlerModel, d.records)
                        /\ token' = d.next_token
                        /\ IF MorePages(get_all_pages, d.next_token)
                           THEN pc' = "loop" /\ UNCHANGED result
                           ELSE /\ pc' = "done"
                                /\ result' = CollectionResult(op, items', token')
    /\ UNCHANGED <<clientVars, urlVars, modelVars>>

\* One turn of `while token:` - the inner collection(next=token,
\* get_all_pages=False) and items.extend(data).
NextPage ==
    /\ pc = "loop"
    /\ LET p == Params(args.start, args.end, token, args.limit) IN
       \E resp \in PageResponses(Len(served) + 1, args.limit) :
        LET d == GetData(resp) IN
        /\ reqs' = Append(reqs, Request(client, HandlerPath, p.params))
        /\ served' = Append(served, resp)
        /\ IF d.outcome # "ok"
           THEN /\ pc' = "done"
                /\ result' = Raised(d.outcome)
                /\ UNCHANGED <<items, token>>
           ELSE /\ items' = Extend(items, ParseRecords(HandlerModel, d.records))
                /\ token' = d.next_token
                /\ IF MorePages(TRUE, d.next_token)
                   THEN pc' = "loop" /\ UNCHANGED result
                   ELSE /\ pc' = "done"
                        /\ result' = CollectionResult(args.op, items', token')
    /\ UNCHANGED args
    /\ UNCHANGED <<clientVars, urlVars, modelVars>>

\* handler.single(id) of one of the four resource handlers.
Single ==
    /\ pc = "idle"
    /\ client.exists
    /\ \E h \in DOMAIN Handlers, id \in RecordIds :
        \E resp \in SingleResponses(id) :
        LET handler == Handlers[h] IN
        /\ args' = [NoArgs EXCEPT !.op = "single", !.handler = h, !.id = id]
        /\ reqs' = <<Request(client, SinglePath(handler.path_single, id), NoParams)>>
        /\ served' = <<resp>>
        /\ result' = IF resp.status # 200 THEN Raised("Exception")
                      ELSE IF FromDictRaises(handler.model, resp.records[1])
                      THEN Raised("ValidationError")
                      ELSE Returned(<<FromDict(handler.model, resp.records[1])>>, None)
        /\ pc' = "done"
    /\ UNCHANGED <<items, token>>
    /\ UNCHANGED <<clientVars, urlVars, modelVars>>

\* The requests of the user handler and the models of their answers.
UserPaths == [profile |-> "user/profile/basic",
              body_measurements |-> "user/body_measurements"]
UserModels == [profile |-> "UserProfile", body_measurements |-> "UserMeasurements"]

\* What the API may answer to a request of the user handler.
UserResponses ==
    {[status |-> 500, records |-> <<>>, next_token |-> None],
     [status |-> 200, records |-> <<[id |-> 1, score |-> None]>>, next_token |-> None]}

\* client.user.profile() and client.user.body_measurements()
UserGet ==
    /\ pc = "idle"
    /\ client.exists
    /\ \E m \in DOMAIN UserPaths, resp \in UserResponses :
        /\ args' = [NoArgs EXCEPT !.op = m, !.handler = "user"]
        /\ reqs' = <<Request(client, UserPaths[m], NoParams)>>
        /\ served' = <<resp>>
        /\ result' = IF resp.status # 200 THEN Raised("Exception")
                      ELSE Returned(<<[model |-> UserModels[m],
                                       id |-> resp.records[1].id,
                                       score |-> None]>>, None)
        /\ pc' = "done"
    /\ UNCHANGED <<items, token>>
    /\ UNCHANGED <<clientVars, urlVars, modelVars>>

\* handler.latest(): collection(limit=1, get_all_pages=False), then recs[0].
Latest ==
    /\ pc = "idle"
    /\ client.exists
    /\ LET p == Params(None, None, None, 1) IN
       \E resp \in PageResponses(1, 1) :
        LET d == GetData(resp) IN
        /\ args' = [NoArgs EXCEPT !.op = "latest", !.limit = 1,
                                   !.get_all_pages = FALSE]
        /\ reqs' = <<Request(client, HandlerPath, p.params)>>
        /\ served' = <<resp>>
        /\ IF d.outcome # "ok"
           THEN /\ pc' = "done"
                /\ result' = Raised(d.outcome)
                /\ UNCHANGED <<items, token>>
           ELSE /\ items' = ParseRecords(HandlerModel, d.records)
                /\ token' = d.next_token
                /\ IF MorePages(FALSE, d.next_token)
                   THEN pc' = "loop" /\ UNCHANGED result
                   ELSE /\ pc' = "done"
                        /\ result' = LatestResult(items')
    /\ UNCHANGED <<clientVars, urlVars, modelVars>>

\* The caller takes the result or the exception; the handler keeps nothing.
Return ==
    /\ pc = "done"
    /\ pc' = "idle"
    /\ args' = NoArgs
    /\ items' = <<>>
    /\ token' = None
    /\ reqs' = <<>>
    /\ served' = <<>>
    /\ result' = NoResult
    /\ UNCHANGED <<clientVars, urlVars, modelVars>>

\* -------------------------------------------------- record model actions

\* How often the caller parses one dict.
MaxParses == 2

\* A raw record arrives from the API, to be parsed as model m.
Receive ==
    /\ cls = None
    /\ \E m \in Models : \E d \in RawDicts(m) :
        /\ cls' = m
        /\ rawDict' = d
        /\ dataDict' = d
    /\ parsed' = <<>>
    /\ UNCHANGED <<clientVars, handlerVars, urlVars>>

\* model.from_dict(data, correct_offset) on the dict the caller holds.
CallFromDict ==
    /\ cls # None
    /\ Len(parsed) < MaxParses
    /\ \E correct_offset \in BOOLEAN :
        LET r == ModelFromDict(cls, dataDict, correct_offset) IN
        /\ dataDict' = r.data
        /\ parsed' = Append(parsed, [outcome |-> r.outcome, record |-> r.record,
                                      correct_offset |-> correct_offset])
    /\ UNCHANGED <<cls, rawDict>>
    /\ UNCHANGED <<clientVars, handlerVars, urlVars>>

\* The caller lets go of the dict and of the records.
Discard ==
    /\ cls # None
    /\ cls' = None
    /\ rawDict' = NoDict
    /\ dataDict' = NoDict
    /\ parsed' = <<>>
    /\ UNCHANGED <<clientVars, handlerVars, urlVars>>

\* ------------------------------------------------------ auth_url action

UrlClientIds == {"1234", "abcd"}
UrlRedirects == {"http://localhost:5000", "https://jwt.ms/"}
UrlStates == {None} \cup {StateOfLen(n) : n \in 0..MaxStateLen}
UrlScopes == {NoList, SomeList(<<>>), SomeList(<<"offline">>),
              SomeList(<<"read:sleep", "offline">>)}

NoUrlCall ==
    [called |-> FALSE, client_id |-> None, client_secret |-> None,
     redirect_uri |-> None, state |-> None, scopes |-> NoList]

\* WhoopClient.auth_url(client_id, client_secret, redirect_uri, state, scopes)
CallAuthUrl ==
    /\ \E id \in UrlClientIds, sec \in ClientSecrets, redirect \in UrlRedirects,
          state \in UrlStates, scopes \in UrlScopes, uuid \in Uuids :
        /\ urlIn' = [called |-> TRUE, client_id |-> id, client_secret |-> sec,
                     redirect_uri |-> redirect, state |-> state, scopes |-> scopes]
        /\ urlOut' = AuthUrl(id, sec, redirect, state, scopes, uuid)
    /\ UNCHANGED <<clientVars, handlerVars, modelVars>>

\* ------------------------------------------------------------------ specs

HandlerIdle ==
    /\ pc = "idle"
    /\ args = NoArgs
    /\ items = <<>>
    /\ token = None
    /\ reqs = <<>>
    /\ served = <<>>
    /\ result = NoResult

UrlIdle ==
    /\ urlIn = NoUrlCall
    /\ urlOut = [outcome |-> "none", url |-> None, state |-> None, posts |-> 0]

ClientInit ==
    /\ client = NoClient
    /\ files = [p \in Paths |-> NoFile]
    /\ stored = NothingStored
    /\ last = LastOp("none", "ok", 0, 0, "none", FALSE, FALSE, NoResponse)

ModelIdle ==
    /\ cls = None
    /\ rawDict = NoDict
    /\ dataDict = NoDict
    /\ parsed = <<>>

Init == ClientInit /\ HandlerIdle /\ UrlIdle /\ ModelIdle

Next ==
    \/ Construct
    \/ Authorize
    \/ Refresh
    \/ DoStoreToken
    \/ FromToken

Spec == Init /\ [][Next]_vars

\* A client as authorize returns it, whose handlers the calls go through.
PagesInit ==
    /\ client = NewClient("at1", 3600, <<"offline", "read:cycles">>, "rt1",
                          "1234", "5678")
    /\ files = [p \in Paths |-> NoFile]
    /\ stored = NothingStored
    /\ last = LastOp("init", "ok", 0, 0, "none", TRUE, FALSE, NoResponse)
    /\ HandlerIdle
    /\ UrlIdle
    /\ ModelIdle

PagesNext ==
    \/ Collection
    \/ NextPage
    \/ Single
    \/ Latest
    \/ UserGet
    \/ Return

SpecPages == PagesInit /\ [][PagesNext]_vars

\* Once the page walk of a call is entered the call goes on: collection is
\* straight-line code around blocking requests.
SpecPagesFair == SpecPages /\ WF_vars(NextPage)

\* Handler calls of a client that is refreshed between them.
SessionNext ==
    \/ Refresh
    \/ Single
    \/ Latest
    \/ UserGet
    \/ Return

\* A client whose scopes the token endpoint grants again on refresh.
SessionInit ==
    /\ client = NewClient("at1", 3600, <<"offline">>, "rt1", "1234", "5678")
    /\ files = [p \in Paths |-> NoFile]
    /\ stored = NothingStored
    /\ last = LastOp("init", "ok", 0, 0, "none", TRUE, FALSE, NoResponse)
    /\ HandlerIdle
    /\ UrlIdle
    /\ ModelIdle

SpecSession == SessionInit /\ [][SessionNext]_vars

UrlNext == CallAuthUrl

SpecUrl == Init /\ [][UrlNext]_vars

ModelsNext ==
    \/ Receive
    \/ CallFromDict
    \/ Discard

SpecModels == Init /\ [][ModelsNext]_vars

\* ------------------------------------------------- token lifecycle claims

RefreshReplacesToken ==
    (last.op = "refresh" /\ last.outcome = "ok") =>
        /\ last.resp.status = 200
        /\ client.token = last.resp.access_token
        /\ client.expires_in = last.resp.expires_in
        /\ client.refresh_token = last.resp.refresh_token
        /\ client.session.Authorization = "Bearer " \o last.resp.access_token

\* A refresh has succeeded on a response that issued the refresh token rt2.
RefreshedWithNewRefreshToken ==
    /\ last.op = "refresh"
    /\ last.outcome = "ok"
    /\ last.resp.refresh_token = "rt2"
    /\ client.refresh_token = "rt2"
    /\ client.expires_in = 7200

\* C5: refresh on a client without a refresh token, or without a client id
\* or a client secret, raises ValueError and sends nothing to the token
\* endpoint.
RefreshNeedsCredentials ==
    [][(/\ client.exists
        /\ last'.op = "refresh"
        /\ \/ client.refresh_token = None
           \/ client.client_id = None
           \/ client.client_secret = None)
       => (last'.outcome = "ValueError" /\ last'.posts = 0 /\ client' = client)]_vars

\* A refresh has been refused on a client that has no refresh token.
RefreshRefusedWithoutToken ==
    /\ last.op = "refresh"
    /\ last.outcome = "ValueError"
    /\ last.posts = 0
    /\ client.refresh_token = None
    /\ client.client_id # None
    /\ client.client_secret # None

\* C6: store_token followed by from_token on the same path, with refresh
\* stubbed, yields a client with the access token, the refresh token and the
\* scope list of the client that was stored.
StoreLoadRoundTrip ==
    (last.op = "from_token" /\ last.stubbed /\ last.returned) =>
        /\ stored.exists
        /\ client.token = stored.access_token
        /\ client.refresh_token = stored.refresh_token
        /\ client.scopes = stored.scopes

\* A client without a refresh token and with two scopes has been stored and
\* loaded back under the stub.
RoundTripOfTokenWithoutRefresh ==
    /\ last.op = "from_token"
    /\ last.stubbed
    /\ last.returned
    /\ stored.exists
    /\ stored.refresh_token = None
    /\ Len(stored.scopes) = 2

\* C7: from_token, once it has read the file, builds the client from the
\* file's fields and calls refresh exactly once; it returns a client exactly
\* when that refresh succeeded and otherwise raises the refresh's error.
FromTokenRefreshesOnce ==
    (last.op = "from_token" /\ last.outcome # "FileNotFoundError") =>
        /\ last.refreshCalls = 1
        /\ last.returned <=> last.refreshOutcome = "ok"
        /\ last.returned =>
               /\ client.exists
               /\ client.scopes = stored.scopes
               /\ client.client_id = "1234"
               /\ client.client_secret = "5678"
        /\ ~last.returned =>
               /\ last.outcome = last.refreshOutcome
               /\ last.outcome \in {"ValueError", "RuntimeError"}

\* from_token has read a token file and raised the RuntimeError of its one
\* refresh, returning no client.
FromTokenSurfacesRefreshError ==
    /\ last.op = "from_token"
    /\ last.refreshCalls = 1
    /\ last.outcome = "RuntimeError"
    /\ ~last.returned

\* The scopes granted by a token response, read off its scope field.
GrantedScopes ==
    CASE last.scope = <<"offline">> -> {"offline"}
      [] last.scope = <<"offline", " ", "read:sleep">> -> {"offline", "read:sleep"}
      [] OTHER -> {}

RequestedScopes == {last.requested.list[i] : i \in DOMAIN last.requested.list}

\* C12: authorize raises RuntimeError whenever the token endpoint answers
\* with a status other than 200, and returns no client then.
AuthorizeRefusedOnBadStatus ==
    (last.op = "authorize" /\ last.status # 200) =>
        /\ last.outcome = "RuntimeError"
        /\ ~last.returned
        /\ last.posts = 1

\* authorize has met the status 401 and raised RuntimeError.
AuthorizeMet401 ==
    /\ last.op = "authorize"
    /\ last.status = 401
    /\ last.outcome = "RuntimeError"
    /\ ~last.returned

\* C13: after a 200 answer authorize raises ValueError if a scope passed in
\* its scopes argument is missing from the granted scopes, and returns a
\* client only when every scope passed was granted.
AuthorizeChecksScopes ==
    (last.op = "authorize" /\ last.status = 200) =>
        /\ ~(RequestedScopes \subseteq GrantedScopes)
               => (last.outcome = "ValueError" /\ ~last.returned)
        /\ last.returned => RequestedScopes \subseteq GrantedScopes
        /\ RequestedScopes \subseteq GrantedScopes => last.returned

\* authorize asked for offline and read:sleep, was granted offline alone and
\* raised ValueError.
AuthorizeMissedScope ==
    /\ last.op = "authorize"
    /\ last.status = 200
    /\ last.requested = SomeList(<<"offline", "read:sleep">>)
    /\ last.scope = <<"offline">>
    /\ last.outcome = "ValueError"
    /\ ~last.returned

\* C14: the client a successful authorize returns has the access token, the
\* expiry and the refresh token of the token response (None when none was
\* issued), the granted scopes as its scope list, the client id and secret
\* given, a session for its token and the five resource handlers.
AuthorizeReturnsFullClient ==
    (last.op = "authorize" /\ last.returned) =>
        /\ client.exists
        /\ last.outcome = "ok"
        /\ client.token = last.resp.access_token
        /\ client.expires_in = last.resp.expires_in
        /\ client.refresh_token = last.resp.refresh_token
        /\ Len(client.scopes) = Cardinality(GrantedScopes)
        /\ {client.scopes[i] : i \in DOMAIN client.scopes} = GrantedScopes
        /\ client.scopes[1] = "offline"
        /\ client.client_id = "1234"
        /\ client.client_secret = "5678"
        /\ client.session.Authorization = "Bearer " \o last.resp.access_token
        /\ client.handlers = {"user", "cycle", "sleep", "workout", "recovery"}

\* authorize has returned a client for a response without a refresh token
\* that granted two scopes.
AuthorizedWithoutRefreshToken ==
    /\ last.op = "authorize"
    /\ last.returned
    /\ last.resp.refresh_token = None
    /\ client.refresh_token = None
    /\ client.token = "at2"
    /\ Len(client.scopes) = 2

\* C22: a successful refresh whose token response carries no refresh_token
\* leaves the client with the refresh token it had before the call.
RefreshKeepsUnreplacedRefreshToken ==
    [][(/\ last'.op = "refresh"
        /\ last'.outcome = "ok"
        /\ last'.resp.refresh_token = None)
       => client'.refresh_token = client.refresh_token]_vars

\* C27: a refresh that fails after its request to the token endpoint - on a
\* status other than 200 or on a grant without one of the client's scopes -
\* leaves access token, expiry, refresh token, scopes and session headers
\* of the client as they were.
FailedRefreshChangesNothing ==
    [][(/\ last'.op = "refresh"
        /\ last'.posts = 1
        /\ last'.outcome # "ok")
       => /\ last'.outcome \in {"RuntimeError", "ValueError"}
          /\ last'.outcome = "RuntimeError" <=> last'.status # 200
          /\ client'.token = client.token
          /\ client'.expires_in = client.expires_in
          /\ client'.refresh_token = client.refresh_token
          /\ client'.scopes = client.scopes
          /\ client'.session = client.session]_vars

\* A refresh of a client that holds read:sleep has failed on a grant of
\* other scopes.
RefreshFailedOnMissingScope ==
    /\ last.op = "refresh"
    /\ last.posts = 1
    /\ last.outcome = "ValueError"
    /\ last.status = 200
    /\ InList("read:sleep", client.scopes)
    /\ ~InList("read:sleep", Split(last.scope))
    /\ client.session.Authorization = "Bearer " \o client.token

\* The token file store_token has just written.
WrittenFile == files[<<".tokens", "token.json">>]

TokenFileWritten ==
    last.op = "store_token" /\ last.outcome = "ok" /\ WrittenFile.exists

\* C20, as claimed: the file store_token writes is a JSON object with the
\* client's current access_token, expires_in and scopes, and with
\* refresh_token as a string, or without that key when the client has no
\* refresh token; it never holds the client id or secret.
TokenFileOmitsMissingRefreshToken ==
    TokenFileWritten =>
        /\ WrittenFile.text.access_token = <<"string", client.token>>
        /\ WrittenFile.text.expires_in = <<"number", client.expires_in>>
        /\ {"client_id", "client_secret"} \cap DOMAIN WrittenFile.text = {}
        /\ IF client.refresh_token = None
           THEN "refresh_token" \notin DOMAIN WrittenFile.text
           ELSE WrittenFile.text.refresh_token = <<"string", client.refresh_token>>

\* C20, amended: the file always has the four keys access_token, expires_in,
\* scopes and refresh_token with the client's current values; refresh_token
\* is a string, or null when the client has no refresh token; the client id
\* and secret are not written.
TokenFileHoldsTokenFields ==
    TokenFileWritten =>
        /\ DOMAIN WrittenFile.text
              = {"access_token", "expires_in", "scopes", "refresh_token"}
        /\ WrittenFile.text.access_token = <<"string", client.token>>
        /\ WrittenFile.text.expires_in = <<"number", client.expires_in>>
        /\ WrittenFile.text.scopes[1] = "array"
        /\ Len(WrittenFile.text.scopes[2]) = Len(client.scopes)
        /\ \A i \in DOMAIN client.scopes :
              WrittenFile.text.scopes[2][i] = <<"string", client.scopes[i]>>
        /\ WrittenFile.text.refresh_token[1] =
              (IF client.refresh_token = None THEN "null" ELSE "string")
        /\ client.refresh_token # None =>
              WrittenFile.text.refresh_token[2] = client.refresh_token

\* The token of a client without a refresh token has been written.
TokenFileWithNullRefreshToken ==
    /\ TokenFileWritten
    /\ client.refresh_token = None
    /\ WrittenFile.text.refresh_token[1] = "null"

\* ---------------------------------------------------- record model claims

\* C17: for each of the four record types, parsing a raw record whose score
\* is null raises nothing and gives a record whose score is None.
NullScoreParses ==
    (Len(parsed) >= 1 /\ rawDict.score.kind = "null") =>
        /\ parsed[1].outcome = "ok"
        /\ parsed[1].record.score.kind = "null"

\* C18: from_dict called twice on the same dict object succeeds both times
\* and gives two records with the same field values: a dict that was parsed
\* into a record once is parsed into an equal record the second time.
ParsingRepeatable ==
    (/\ Len(parsed) = 2
     /\ parsed[1].correct_offset = parsed[2].correct_offset
     /\ parsed[1].outcome = "ok") =>
        /\ parsed[2].outcome = "ok"
        /\ parsed[1].record = parsed[2].record

\* The nested keys of the score of the record type parsed.
NestedKeys ==
    CASE cls = "UserSleep" -> {"stage_summary", "sleep_needed"}
      [] cls = "UserWorkout" -> {"zone_duration"}
      [] OTHER -> {}

\* C28: a sleep score without stage_summary or sleep_needed, or with null
\* for them, and a workout score without zone_duration, or with null for
\* it, is parsed without an error into a score whose sub-object is None;
\* a sub-object that is given is built.
PartialScoreAccepted ==
    (Len(parsed) >= 1 /\ rawDict.score.kind = "dict") =>
        /\ parsed[1].outcome = "ok"
        /\ parsed[1].record.score.kind = "object"
        /\ \A k \in NestedKeys :
              parsed[1].record.score.nested[k] =
                  (IF rawDict.score.nested[k] \in {"absent", "null"}
                   THEN "null" ELSE "object")

\* A sleep record whose score has no stage_summary but has sleep_needed
\* has been parsed.
SleepWithoutStagesParsed ==
    /\ Len(parsed) >= 1
    /\ cls = "UserSleep"
    /\ rawDict.score.kind = "dict"
    /\ rawDict.score.nested.stage_summary = "absent"
    /\ rawDict.score.nested.sleep_needed = "dict"
    /\ parsed[1].outcome = "ok"
    /\ parsed[1].record.score.nested.stage_summary = "null"
    /\ parsed[1].record.score.nested.sleep_needed = "object"

\* The minutes the claim has a timestamp of the raw record shifted by.
ClaimedShift(correct_offset) ==
    IF ~correct_offset \/ rawDict.timezone_offset.kind = "absent" THEN 0
    ELSE IF rawDict.timezone_offset.sign = "-"
    THEN 0 - (60 * rawDict.timezone_offset.hours + rawDict.timezone_offset.minutes)
    ELSE 60 * rawDict.timezone_offset.hours + rawDict.timezone_offset.minutes

\* The timestamp fields of the record type parsed.
TimestampFields ==
    IF cls = "UserRecovery" THEN {"created_at", "updated_at"}
    ELSE {"created_at", "updated_at", "start", "end"}

\* C29: from_dict with correct_offset shifts every timestamp that is given
\* and not null by the timezone_offset of the record - +HH:MM and HH:MM add,
\* -HH:MM subtracts -, without correct_offset it shifts nothing, and a null
\* end is None either way.
OffsetShiftsTimestamps ==
    (Len(parsed) >= 1 /\ cls # None) =>
        (parsed[1].outcome = "ok" =>
            \A k \in TimestampFields :
                parsed[1].record[k] =
                    (IF rawDict[k].kind = "str"
                     THEN Datetime(rawDict[k].t + ClaimedShift(parsed[1].correct_offset))
                     ELSE Null))

\* A record with the offset -05:30 and a null end has been parsed with the
\* correction: five and a half hours earlier, end still None.
ShiftedBackFiveAndAHalfHours ==
    /\ Len(parsed) >= 1
    /\ parsed[1].outcome = "ok"
    /\ parsed[1].correct_offset
    /\ rawDict.timezone_offset = Offset("-", 5, 30)
    /\ rawDict.end = Null
    /\ parsed[1].record.created_at = Datetime(rawDict.created_at.t - 330)
    /\ parsed[1].record.start = Datetime(rawDict.start.t - 330)
    /\ parsed[1].record.end = Null

\* --------------------------------------------------------- handler claims

\* The number of records on the first p of the pages served.
RECURSIVE RecordsBefore(_)
RecordsBefore(p) ==
    IF p = 0 THEN 0 ELSE RecordsBefore(p - 1) + Len(served[p].records)

\* Every page served was a 200 answer, each but the last with a continuation
\* token, the last with none: a finite chain served to its end.
WholeChainServed ==
    /\ served # <<>>
    /\ \A p \in DOMAIN served : served[p].status = 200
    /\ \A p \in 1..(Len(served) - 1) : served[p].next_token # None
    /\ served[Len(served)].next_token = None

LimitAccepted == args.limit >= 1 /\ args.limit <= 25

\* The start and end of the call, where given, stand for dates.
DatesAccepted ==
    \A date \in {args.start, args.end} \ {None} : AnyToDatetime(date).exists

\* C1: collection with get_all_pages=true over a finite chain of pages
\* returns the records of all the pages, page after page, each record once
\* and in its place: the j-th record of page p is item number (records on
\* the pages before p) + j, and there are no other items.
CollectionConcatenatesPages ==
    (pc = "done" /\ args.op = "collection" /\ args.get_all_pages
     /\ LimitAccepted /\ DatesAccepted) =>
        /\ result.outcome = "ok" <=> WholeChainServed
        /\ result.outcome = "ok" =>
              /\ Len(result.items) = RecordsBefore(Len(served))
              /\ \A p \in DOMAIN served : \A j \in DOMAIN served[p].records :
                    /\ result.items[RecordsBefore(p - 1) + j].id
                           = served[p].records[j].id
                    /\ result.items[RecordsBefore(p - 1) + j].model = "UserCycle"

\* A chain of three pages with 2, 2 and 1 records has been collected.
ThreePagesCollected ==
    /\ pc = "done"
    /\ args.op = "collection"
    /\ args.get_all_pages
    /\ result.outcome = "ok"
    /\ Len(served) = 3
    /\ Len(served[1].records) = 2
    /\ Len(served[2].records) = 2
    /\ Len(served[3].records) = 1
    /\ Len(result.items) = 5

\* C2: collection with get_all_pages=false sends exactly one page request
\* and returns that page's records with that page's continuation token as
\* it came, None when the page has none.
SinglePageOnly ==
    (pc = "done" /\ args.op = "collection" /\ ~args.get_all_pages
     /\ LimitAccepted /\ DatesAccepted) =>
        /\ Len(reqs) = 1
        /\ Len(served) = 1
        /\ result.outcome = "ok" <=> served[1].status = 200
        /\ result.outcome = "ok" =>
              /\ result.token = served[1].next_token
              /\ Len(result.items) = Len(served[1].records)
              /\ \A j \in DOMAIN served[1].records :
                    result.items[j].id = served[1].records[j].id

\* One page of two records that announces a further page has been returned
\* by a call with get_all_pages=false.
SinglePageWithToken ==
    /\ pc = "done"
    /\ args.op = "collection"
    /\ ~args.get_all_pages
    /\ result.outcome = "ok"
    /\ result.token = "cursor1"
    /\ Len(result.items) = 2
    /\ Len(reqs) = 1

\* C8: collection raises ValueError exactly when limit < 1 or limit > 25,
\* and then sends nothing; every limit from 1 to 25 is accepted and is the
\* limit parameter of every request of the call.
LimitValidated ==
    (pc = "done" /\ args.op = "collection") =>
        /\ result.outcome = "ValueError" <=> (args.limit < 1 \/ args.limit > 25)
        /\ result.outcome = "ValueError" => reqs = <<>>
        /\ (result.outcome # "ValueError" /\ DatesAccepted) =>
              /\ reqs # <<>>
              /\ \A i \in DOMAIN reqs : reqs[i].params.limit = args.limit

\* A call with limit=26 has been refused before any request.
LimitRefusedAbove25 ==
    pc = "done" /\ args.op = "collection" /\ args.limit = 26 /\ result.outcome = "ValueError" /\ reqs = <<>>

\* The path the call of single is to fetch, by handler.
ExpectedSinglePath ==
    CASE args.handler = "cycle" -> "cycle/" \o ToString(args.id)
      [] args.handler = "sleep" -> "activity/sleep/" \o ToString(args.id)
      [] args.handler = "workout" -> "activity/workout/" \o ToString(args.id)
      [] args.handler = "recovery" -> "cycle/" \o ToString(args.id) \o "/recovery"

\* C15: single(id) sends one GET, without query parameters, to the handler's
\* single-record template with id in the place of the marker - cycle/<id>,
\* activity/sleep/<id>, activity/workout/<id>, cycle/<id>/recovery - and
\* raises the API error exactly when the status is not 200.
SingleGetsRecordPath ==
    args.op = "single" =>
        /\ pc = "done"
        /\ Len(reqs) = 1
        /\ reqs[1].url = "https://api.prod.whoop.com/developer/v1/" \o ExpectedSinglePath
        /\ reqs[1].params = NoParams
        /\ result.outcome = "Exception" <=> served[1].status # 200

\* The recovery of cycle 4096 has been fetched.
RecoveryOfCycleFetched ==
    /\ pc = "done"
    /\ args.op = "single"
    /\ args.handler = "recovery"
    /\ args.id = 4096
    /\ reqs[1].url = "https://api.prod.whoop.com/developer/v1/cycle/4096/recovery"
    /\ result.outcome = "ok"
    /\ result.items[1].id = 4096

\* C16: latest() sends exactly one page request, with limit=1 and without
\* nextToken, follows no continuation token, returns the first record of
\* the page, and raises IndexError exactly when a 200 page has no records.
LatestReturnsFirstRecord ==
    args.op = "latest" =>
        /\ pc = "done"
        /\ Len(reqs) = 1
        /\ reqs[1].params = [limit |-> 1, start |-> None, end |-> None,
                              nextToken |-> None]
        /\ result.outcome = "Exception" <=> served[1].status # 200
        /\ result.outcome = "IndexError" <=>
              (served[1].status = 200 /\ served[1].records = <<>>)
        /\ result.outcome = "ok" <=>
              (served[1].status = 200 /\ served[1].records # <<>>)
        /\ result.outcome = "ok" =>
              /\ Len(result.items) = 1
              /\ result.items[1].id = served[1].records[1].id

\* latest() has returned the record of a page that announced a further page.
LatestLeftTokenAlone ==
    /\ pc = "done"
    /\ args.op = "latest"
    /\ result.outcome = "ok"
    /\ served[1].next_token = "cursor1"
    /\ Len(reqs) = 1

\* The value of the start or end parameter for a date that parses.
NormalizedDate(date) == IF date = None THEN None ELSE "2022-04-24T00:00:00Z"

\* C19: a start or end that cannot be parsed as a date makes collection
\* raise ValueError before any request is sent; a start or end that parses
\* is put into the query normalized to the timestamp format.
UnparseableDateRefused ==
    (pc = "done" /\ args.op = "collection" /\ LimitAccepted) =>
        /\ ~DatesAccepted => (result.outcome = "ValueError" /\ reqs = <<>>)
        /\ DatesAccepted =>
              /\ reqs # <<>>
              /\ \A i \in DOMAIN reqs :
                    /\ reqs[i].params.start = NormalizedDate(args.start)
                    /\ reqs[i].params.end = NormalizedDate(args.end)

\* Calls of collection that walk the pages.
WalksPages == args.op = "collection" /\ args.get_all_pages

\* C21: collection_df returns the continuation token collection returns for
\* the same arguments and answers, and a table with one row per record that
\* collection returns, in the same order.
TableHasRowPerRecord ==
    (pc = "done" /\ args.op = "collection_df" /\ LimitAccepted /\ DatesAccepted) =>
        /\ result.outcome = "ok" <=>
              (IF args.get_all_pages THEN WholeChainServed
               ELSE served[1].status = 200)
        /\ result.outcome = "ok" =>
              /\ result.token = token
              /\ result.token = served[Len(served)].next_token
              /\ Len(result.table) = Len(items)
              /\ Len(result.table) = RecordsBefore(Len(served))
              /\ \A i \in DOMAIN items : result.table[i].id = items[i].id

\* A table of three rows has been made of two pages, two records and one.
TableOfTwoPages ==
    /\ pc = "done"
    /\ args.op = "collection_df"
    /\ result.outcome = "ok"
    /\ Len(served) = 2
    /\ Len(served[1].records) = 2
    /\ Len(served[2].records) = 1
    /\ Len(result.table) = 3

\* C23: the page requests of collection with get_all_pages=true go out one
\* after the other, each after the answer to the one before: the first with
\* the caller's next token or none, every later one with the continuation
\* token of the answer just before it and with the start, end and limit of
\* the first; there are as many requests as pages served.
PageRequestsChained ==
    WalksPages =>
        /\ Len(reqs) = Len(served)
        /\ reqs # <<>> => reqs[1].params.nextToken = args.next
        /\ \A i \in 2..Len(reqs) :
              /\ served[i - 1].next_token # None
              /\ reqs[i].params.nextToken = served[i - 1].next_token
              /\ reqs[i].params.start = reqs[1].params.start
              /\ reqs[i].params.end = reqs[1].params.end
              /\ reqs[i].params.limit = args.limit
              /\ reqs[i].url = reqs[1].url
        /\ (pc = "done" /\ result.outcome = "ok") => WholeChainServed

\* A chain of three pages has been walked from the caller's token on, with
\* a start date.
ThreeRequestsChained ==
    /\ WalksPages
    /\ pc = "done"
    /\ result.outcome = "ok"
    /\ args.next = "cursor0"
    /\ args.start = "2022-04-24"
    /\ Len(reqs) = 3
    /\ reqs[1].params.nextToken = "cursor0"
    /\ reqs[2].params.nextToken = "cursor1"
    /\ reqs[3].params.nextToken = "cursor2"
    /\ reqs[3].params.start = "2022-04-24T00:00:00Z"

\* C24: an answer with a status other than 200 to any page request of
\* collection with get_all_pages=true ends the call with the API error:
\* the request is the last one sent, it is sent once, and the records of
\* the pages before are not returned.
FailedPageEndsCollection ==
    WalksPages =>
        \A p \in DOMAIN served :
            served[p].status # 200 =>
                /\ p = Len(served)
                /\ Len(reqs) = Len(served)
                /\ pc = "done"
                /\ result.outcome = "Exception"
                /\ result.items = <<>>
                /\ result.token = None

\* The third page request of a call has failed after two pages of two
\* records.
ThirdPageFailed ==
    /\ WalksPages
    /\ pc = "done"
    /\ Len(served) = 3
    /\ Len(served[1].records) = 2
    /\ Len(served[2].records) = 2
    /\ served[3].status = 500
    /\ result.outcome = "Exception"
    /\ result.items = <<>>

\* C25: collection with get_all_pages=true comes to an end on every finite
\* chain of continuation tokens; it asks for a further page as long as the
\* last answer carries a token, and the token it returns is None.
CollectionWalksToTheEnd ==
    /\ [](WalksPages =>
            /\ pc = "loop" <=>
                  (served # <<>> /\ served[Len(served)].status = 200
                   /\ served[Len(served)].next_token # None)
            /\ (pc = "done" /\ result.outcome = "ok") =>
                  (result.token = None /\ served[Len(served)].next_token = None))
    /\ ((WalksPages /\ pc = "loop") ~> (WalksPages /\ pc = "done"))

\* A call has come to its end after the longest chain the API serves.
LongestChainWalked ==
    /\ WalksPages
    /\ pc = "done"
    /\ result.outcome = "ok"
    /\ Len(served) = MaxPages
    /\ result.token = None

\* C26: after a successful refresh every request of a handler - user,
\* cycle, sleep, workout, recovery - carries the new access token in its
\* Authorization header, not that of the session from before the refresh.
RequestsCarryRefreshedToken ==
    [][Len(reqs') > Len(reqs) =>
          /\ reqs'[Len(reqs')].auth = "Bearer " \o client.token
          /\ (last.op = "refresh" /\ last.outcome = "ok") =>
                reqs'[Len(reqs')].auth = "Bearer " \o last.resp.access_token]_vars

\* The user handler has sent a request with the access token at2 that a
\* refresh brought.
UserRequestAfterRefresh ==
    /\ last.op = "refresh"
    /\ last.outcome = "ok"
    /\ last.resp.access_token = "at2"
    /\ pc = "done"
    /\ args.handler = "user"
    /\ reqs[1].auth = "Bearer at2"

\* -------------------------------------------------------- auth_url claims

\* C9, as claimed: auth_url raises ValueError for every supplied state of
\* fewer than 8 characters, the empty one included, and succeeds for every
\* supplied state of 8 or more characters.
ShortStateAlwaysRefused ==
    (urlIn.called /\ urlIn.state # None) =>
        /\ Len(urlIn.state) < 8 => urlOut.outcome = "ValueError"
        /\ Len(urlIn.state) >= 8 => urlOut.outcome = "ok"

\* C9, amended: auth_url raises ValueError for every supplied state of 1 to
\* 7 characters and succeeds for every supplied state of 8 or more; an empty
\* state counts as not supplied: the call succeeds with a generated state of
\* 36 characters.
NonEmptyShortStateRefused ==
    (urlIn.called /\ urlIn.state # None) =>
        /\ (Len(urlIn.state) >= 1 /\ Len(urlIn.state) < 8)
               => urlOut.outcome = "ValueError"
        /\ Len(urlIn.state) >= 8
               => (urlOut.outcome = "ok" /\ urlOut.state = urlIn.state)
        /\ Len(urlIn.state) = 0
               => (urlOut.outcome = "ok" /\ Len(urlOut.state) = 36)

\* auth_url has refused a supplied state of seven characters.
SevenCharacterStateRefused ==
    /\ urlIn.called
    /\ urlIn.state = "sssssss"
    /\ urlOut.outcome = "ValueError"

\* The scope parameter auth_url is to produce for the scopes passed.
ExpectedScopeText ==
    CASE urlIn.scopes = SomeList(<<"offline">>) -> "offline"
      [] urlIn.scopes = SomeList(<<"read:sleep", "offline">>) -> "read:sleep offline"
      [] OTHER -> "offline read:recovery read:cycles read:sleep read:workout "
                  \o "read:profile read:body_measurement"

AuthUrlAsTested ==
    (/\ urlIn.called
     /\ urlIn.client_id = "1234"
     /\ urlIn.client_secret = "5678"
     /\ urlIn.redirect_uri = "http://localhost:5000"
     /\ urlIn.state = None
     /\ urlIn.scopes = NoList) =>
        /\ urlOut.outcome = "ok"
        /\ urlOut.url =
              "https://api.prod.whoop.com/oauth/oauth2/authorize?"
              \o "client_id=1234&redirect_uri=http%3A%2F%2Flocalhost%3A5000&"
              \o "response_type=code&scope=offline+read%3Arecovery+read%3Acycles"
              \o "+read%3Asleep+read%3Aworkout+read%3Aprofile+read%3Abody_measurement&"
              \o "state=5678"

====
